---- MODULE Spec2Model ----
(***************************************************************************)
(* Model of the authentication flow held by the App component of           *)
(* src/app.tsx (lines 14-172): the React state of App, the two             *)
(* localStorage keys, the mount effect, the handlers and the callbacks     *)
(* renderAuthFlow hands to the step cards.  The step cards themselves are  *)
(* not part of the sources; their requests in flight are modelled after    *)
(* the step view contract of the specification (sections 4.2 and 5).       *)
(***************************************************************************)
EXTENDS Bags, FiniteSets, Integers, Sequences, TLC

VARIABLES
    currentUserId,           \* app.tsx:17
    isUserVerified,          \* app.tsx:18
    lastAnalyzedDocumentId,  \* app.tsx:19
    appError,                \* app.tsx:20
    currentAuthFlowState,    \* app.tsx:22
    tempEmail,               \* app.tsx:23
    localStorage,            \* the two keys read and written by App
    phase,                   \* "first_render": rendered once, mount effect not yet run; "ready"
    pending,                 \* requests in flight started by the mounted card (0 or 1)
    stale,                   \* bag of requests in flight whose card has been unmounted
    lastEvent                \* observation: the last callback delivered

vars == <<currentUserId, isUserVerified, lastAnalyzedDocumentId, appError,
          currentAuthFlowState, tempEmail, localStorage, phase, pending,
          stale, lastEvent>>

----------------------------------------------------------------------------
(* Bounds and value sets *)

MaxInFlight == 2

Null == "<null>"

Emails == {"", "a@b.com", "x@y.com"}

Messages == {"bad password", "expired code"}

UserIds == {"u1", "u2"}

DocIds == {"d1"}

StoredFlags == {Null, "true", "false", "yes"}

LOCAL_STORAGE_USER_ID_KEY == "user_id"

LOCAL_STORAGE_USER_VERIFIED_KEY == "user_verified"

AuthFlowState ==
    {"email_input", "choose_method", "register_with_password",
     "login_with_password", "request_otp", "verify_otp", "authenticated"}

\* the cards that take the carried email
GuardedSteps == {"choose_method", "login_with_password", "request_otp", "verify_otp"}

\* the mounted components that perform a network call and report its outcome
RequestSteps == GuardedSteps \cup {"authenticated"}

\* a request in flight of an unmounted component: the step that started it
\* and what unmounted the component
StaleKinds == [step : RequestSteps, cause : {"back", "other"}]

UserResponse == [id : UserIds, is_verified : BOOLEAN]

\* JavaScript truthiness of a string | null
Truthy(s) == s /= Null /\ s /= ""

\* mutant: the flag is stored as a digit
StringOfBool_digit(b) == IF b THEN "1" ELSE "0"

\* String(b) for a boolean b
StringOfBool(b) == IF b THEN "true" ELSE "false"

EmptyStorage ==
    [k \in {LOCAL_STORAGE_USER_ID_KEY, LOCAL_STORAGE_USER_VERIFIED_KEY} |-> Null]

----------------------------------------------------------------------------
(* The state the handlers of App read and write, as one record *)

Cur ==
    [currentUserId          |-> currentUserId,
     isUserVerified         |-> isUserVerified,
     lastAnalyzedDocumentId |-> lastAnalyzedDocumentId,
     appError               |-> appError,
     currentAuthFlowState   |-> currentAuthFlowState,
     tempEmail              |-> tempEmail,
     localStorage           |-> localStorage]

\* useState initial values
InitialState(store) ==
    [currentUserId          |-> Null,
     isUserVerified         |-> FALSE,
     lastAnalyzedDocumentId |-> Null,
     appError               |-> Null,
     currentAuthFlowState   |-> "email_input",
     tempEmail              |-> Null,
     localStorage           |-> store]

\* mutant: the flow state is left at its initial value
loadEffect_keepsFlow(S) ==
    LET storedUserId == S.localStorage[LOCAL_STORAGE_USER_ID_KEY]
        storedVerifiedStatus == S.localStorage[LOCAL_STORAGE_USER_VERIFIED_KEY]
    IN  IF Truthy(storedUserId)
        THEN [S EXCEPT !.currentUserId = storedUserId,
                       !.isUserVerified = (storedVerifiedStatus = "true")]
        ELSE [S EXCEPT !.currentAuthFlowState = "email_input"]

\* mutant: the flag is read outside the test of the identifier
loadEffect_flagFirst(S) ==
    LET storedUserId == S.localStorage[LOCAL_STORAGE_USER_ID_KEY]
        storedVerifiedStatus == S.localStorage[LOCAL_STORAGE_USER_VERIFIED_KEY]
        T == [S EXCEPT !.isUserVerified = (storedVerifiedStatus = "true")]
    IN  IF Truthy(storedUserId)
        THEN [T EXCEPT !.currentUserId = storedUserId,
                       !.currentAuthFlowState = "authenticated"]
        ELSE [T EXCEPT !.currentAuthFlowState = "email_input"]

\* the mount effect
loadEffect(S) ==
    LET storedUserId == S.localStorage[LOCAL_STORAGE_USER_ID_KEY]
        storedVerifiedStatus == S.localStorage[LOCAL_STORAGE_USER_VERIFIED_KEY]
    IN  IF Truthy(storedUserId)
        THEN [S EXCEPT !.currentUserId = storedUserId,
                       !.isUserVerified = (storedVerifiedStatus = "true"),
                       !.currentAuthFlowState = "authenticated"]
        ELSE [S EXCEPT !.currentAuthFlowState = "email_input"]

handleLoginSuccess(S, userData) ==
    [S EXCEPT !.currentUserId = userData.id,
              !.isUserVerified = userData.is_verified,
              !.localStorage =
                  [S.localStorage EXCEPT
                      ![LOCAL_STORAGE_USER_ID_KEY] = userData.id,
                      ![LOCAL_STORAGE_USER_VERIFIED_KEY] = StringOfBool(userData.is_verified)],
              !.currentAuthFlowState = "authenticated",
              !.appError = Null]

\* mutant: the verified key is not removed
handleLogout_keepsFlag(S) ==
    [S EXCEPT !.currentUserId = Null,
              !.isUserVerified = FALSE,
              !.localStorage =
                  [S.localStorage EXCEPT ![LOCAL_STORAGE_USER_ID_KEY] = Null],
              !.lastAnalyzedDocumentId = Null,
              !.appError = Null,
              !.tempEmail = Null,
              !.currentAuthFlowState = "email_input"]

handleLogout(S) ==
    [S EXCEPT !.currentUserId = Null,
              !.isUserVerified = FALSE,
              !.localStorage =
                  [S.localStorage EXCEPT
                      ![LOCAL_STORAGE_USER_ID_KEY] = Null,
                      ![LOCAL_STORAGE_USER_VERIFIED_KEY] = Null],
              !.lastAnalyzedDocumentId = Null,
              !.appError = Null,
              !.tempEmail = Null,
              !.currentAuthFlowState = "email_input"]

\* mutant: the error of an earlier analysis is left on screen
handleDocumentAnalyzed_keepsError(S, documentId) ==
    [S EXCEPT !.lastAnalyzedDocumentId = documentId]

handleDocumentAnalyzed(S, documentId) ==
    [S EXCEPT !.lastAnalyzedDocumentId = documentId,
              !.appError = Null]

\* mutant: a fixed message replaces the reported one
handleAnalysisError_generic(S, error) ==
    [S EXCEPT !.appError = "bad password"]

handleAnalysisError(S, error) ==
    [S EXCEPT !.appError = error]

\* mutant: the submitted email is not stored
handleEmailSubmitted_dropsEmail(S, email) ==
    [S EXCEPT !.currentAuthFlowState = "choose_method",
              !.appError = Null]

handleEmailSubmitted(S, email) ==
    [S EXCEPT !.tempEmail = email,
              !.currentAuthFlowState = "choose_method",
              !.appError = Null]

setCurrentAuthFlowState(S, state) ==
    [S EXCEPT !.currentAuthFlowState = state]

\* mutant: the password choice opens the registration step
onChoosePassword_registers(S) == setCurrentAuthFlowState(S, "register_with_password")

\* the closures renderAuthFlow hands to the cards
onChoosePassword(S) == setCurrentAuthFlowState(S, "login_with_password")

onChooseOtp(S) == setCurrentAuthFlowState(S, "request_otp")

onRequestSuccess(S) == setCurrentAuthFlowState(S, "verify_otp")

\* mutant: Back to the email step forgets the email
onBack_clearsEmail(S, step) ==
    CASE step = "choose_method"       ->
            [setCurrentAuthFlowState(S, "email_input") EXCEPT !.tempEmail = Null]
      [] step = "login_with_password" -> setCurrentAuthFlowState(S, "choose_method")
      [] step = "request_otp"         -> setCurrentAuthFlowState(S, "choose_method")
      [] step = "verify_otp"          -> setCurrentAuthFlowState(S, "request_otp")

\* mutant: Back of the verification card returns to the method chooser
onBack_skipsRequest(S, step) ==
    CASE step = "choose_method"       -> setCurrentAuthFlowState(S, "email_input")
      [] step = "login_with_password" -> setCurrentAuthFlowState(S, "choose_method")
      [] step = "request_otp"         -> setCurrentAuthFlowState(S, "choose_method")
      [] step = "verify_otp"          -> setCurrentAuthFlowState(S, "choose_method")

onBack(S, step) ==
    CASE step = "choose_method"       -> setCurrentAuthFlowState(S, "email_input")
      [] step = "login_with_password" -> setCurrentAuthFlowState(S, "choose_method")
      [] step = "request_otp"         -> setCurrentAuthFlowState(S, "choose_method")
      [] step = "verify_otp"          -> setCurrentAuthFlowState(S, "request_otp")

\* the success callback wired to the component mounted in step
onSuccess(S, step, userData, documentId) ==
    CASE step = "choose_method"       -> handleLoginSuccess(S, userData)
      [] step = "login_with_password" -> handleLoginSuccess(S, userData)
      [] step = "request_otp"         -> onRequestSuccess(S)
      [] step = "verify_otp"          -> handleLoginSuccess(S, userData)
      [] step = "authenticated"       -> handleDocumentAnalyzed(S, documentId)

\* the failure callback wired to the component mounted in step
onError(S, step, message) == handleAnalysisError(S, message)

\* the element of a render that returns null
NoView == [card |-> Null, email |-> Null]

\* mutant: the password card is rendered without the check of the email
renderAuthFlow_noPasswordGuard(state, email) ==
    CASE state = "email_input" ->
            [view |-> [card |-> "EmailInputCard", email |-> Null], set |-> Null]
      [] state = "login_with_password" ->
            [view |-> [card |-> "PasswordLoginCard", email |-> email], set |-> Null]
      [] state = "choose_method" ->
            IF ~Truthy(email)
            THEN [view |-> NoView, set |-> "email_input"]
            ELSE [view |-> [card |-> "AuthMethodChooserCard", email |-> email], set |-> Null]
      [] state = "request_otp" ->
            IF ~Truthy(email)
            THEN [view |-> NoView, set |-> "email_input"]
            ELSE [view |-> [card |-> "OtpRequestCard", email |-> email], set |-> Null]
      [] state = "verify_otp" ->
            IF ~Truthy(email)
            THEN [view |-> NoView, set |-> "email_input"]
            ELSE [view |-> [card |-> "OtpVerificationCard", email |-> email], set |-> Null]
      [] OTHER -> [view |-> NoView, set |-> Null]

\* One evaluation of renderAuthFlow: the element it returns (view) and the
\* state it sets while rendering (set, Null when it sets none).
renderAuthFlow(state, email) ==
    CASE state = "email_input" ->
            [view |-> [card |-> "EmailInputCard", email |-> Null], set |-> Null]
      [] state = "choose_method" ->
            IF ~Truthy(email)
            THEN [view |-> NoView, set |-> "email_input"]
            ELSE [view |-> [card |-> "AuthMethodChooserCard", email |-> email], set |-> Null]
      [] state = "login_with_password" ->
            IF ~Truthy(email)
            THEN [view |-> NoView, set |-> "email_input"]
            ELSE [view |-> [card |-> "PasswordLoginCard", email |-> email], set |-> Null]
      [] state = "request_otp" ->
            IF ~Truthy(email)
            THEN [view |-> NoView, set |-> "email_input"]
            ELSE [view |-> [card |-> "OtpRequestCard", email |-> email], set |-> Null]
      [] state = "verify_otp" ->
            IF ~Truthy(email)
            THEN [view |-> NoView, set |-> "email_input"]
            ELSE [view |-> [card |-> "OtpVerificationCard", email |-> email], set |-> Null]
      [] OTHER -> [view |-> NoView, set |-> Null]

\* the render of App: the auth-flow branch unless authenticated
renderApp(S) ==
    IF S.currentAuthFlowState /= "authenticated"
    THEN renderAuthFlow(S.currentAuthFlowState, S.tempEmail)
    ELSE [view |-> [card |-> "DocumentAnalyzerCard", email |-> Null], set |-> Null]

\* a state set while rendering restarts the render with that state
GuardFires(S) == renderApp(S).set /= Null

\* mutant: the fallback reports the lost email as an error
Rendered_reportsError(S) ==
    IF GuardFires(S)
    THEN [setCurrentAuthFlowState(S, renderApp(S).set) EXCEPT !.appError = "bad password"]
    ELSE S

Rendered(S) ==
    IF GuardFires(S)
    THEN setCurrentAuthFlowState(S, renderApp(S).set)
    ELSE S

\* what is on screen in the current state
View == renderApp(Cur).view

----------------------------------------------------------------------------
(* Events *)

SuccessName(step) ==
    CASE step = "choose_method"       -> "LoginSucceeded"
      [] step = "login_with_password" -> "LoginSucceeded"
      [] step = "request_otp"         -> "RequestSucceeded"
      [] step = "verify_otp"          -> "VerificationSucceeded"
      [] step = "authenticated"       -> "DocumentAnalyzed"

FailureName(step) ==
    CASE step = "choose_method"       -> "LoginFailed"
      [] step = "login_with_password" -> "LoginFailed"
      [] step = "request_otp"         -> "RequestFailed"
      [] step = "verify_otp"          -> "VerificationFailed"
      [] step = "authenticated"       -> "AnalysisError"

\* A component that leaves the screen keeps its request in flight: the
\* request joins the stale bag, tagged with what unmounted the component.
Abandon(unmounted, unmountCause, pendingAfter, staleAfter) ==
    IF unmounted /\ pendingAfter = 1
    THEN staleAfter (+) SetToBag({[step |-> currentAuthFlowState, cause |-> unmountCause]})
    ELSE staleAfter

\* React commits the state S the handler produced, re-rendered until the
\* render sets no state.
Commit(S, ev, unmountCause, pendingAfter, staleAfter) ==
    LET R == Rendered(S)
        unmounted == R.currentAuthFlowState /= currentAuthFlowState
    IN  /\ currentUserId' = R.currentUserId
        /\ isUserVerified' = R.isUserVerified
        /\ lastAnalyzedDocumentId' = R.lastAnalyzedDocumentId
        /\ appError' = R.appError
        /\ currentAuthFlowState' = R.currentAuthFlowState
        /\ tempEmail' = R.tempEmail
        /\ localStorage' = R.localStorage
        /\ pending' = IF unmounted THEN 0 ELSE pendingAfter
        /\ stale' = Abandon(unmounted, unmountCause, pendingAfter, staleAfter)
        /\ lastEvent' = [ev EXCEPT !.guard = GuardFires(S)]

Ev(name, step, isStale) ==
    [name |-> name, step |-> step, stale |-> isStale, guard |-> FALSE]

Init ==
    /\ \E id \in UserIds \cup {Null}, flag \in StoredFlags :
          localStorage = [EmptyStorage EXCEPT ![LOCAL_STORAGE_USER_ID_KEY] = id,
                                              ![LOCAL_STORAGE_USER_VERIFIED_KEY] = flag]
    /\ currentUserId = Null
    /\ isUserVerified = FALSE
    /\ lastAnalyzedDocumentId = Null
    /\ appError = Null
    /\ currentAuthFlowState = "email_input"
    /\ tempEmail = Null
    /\ phase = "first_render"
    /\ pending = 0
    /\ stale = EmptyBag
    /\ lastEvent = Ev("Start", "email_input", FALSE)

\* useEffect(..., []) after the first render
LoadEffect ==
    /\ phase = "first_render"
    /\ Commit(loadEffect(Cur), Ev("Load", "email_input", FALSE), "other", 0, EmptyBag)
    /\ phase' = "ready"

\* a page reload: the React state is rebuilt from its initial values, the
\* requests of the old page are gone, localStorage survives
Restart ==
    /\ phase = "ready"
    /\ Commit(InitialState(localStorage), Ev("Restart", currentAuthFlowState, FALSE),
              "other", 0, EmptyBag)
    /\ phase' = "first_render"

\* EmailInputCard.onEmailSubmitted
EmailSubmitted(email) ==
    /\ phase = "ready"
    /\ currentAuthFlowState = "email_input"
    /\ Commit(handleEmailSubmitted(Cur, email), Ev("EmailSubmitted", "email_input", FALSE),
              "other", pending, stale)
    /\ phase' = phase

\* EmailInputCard.onLoginError
EmailInputError(message) ==
    /\ phase = "ready"
    /\ currentAuthFlowState = "email_input"
    /\ Commit(handleAnalysisError(Cur, message), Ev("LoginFailed", "email_input", FALSE),
              "other", pending, stale)
    /\ phase' = phase

\* AuthMethodChooserCard.onChoosePassword
ChoosePassword ==
    /\ phase = "ready"
    /\ currentAuthFlowState = "choose_method"
    /\ Commit(onChoosePassword(Cur), Ev("ChoosePassword", "choose_method", FALSE),
              "other", pending, stale)
    /\ phase' = phase

\* AuthMethodChooserCard.onChooseOtp
ChooseOtp ==
    /\ phase = "ready"
    /\ currentAuthFlowState = "choose_method"
    /\ Commit(onChooseOtp(Cur), Ev("ChooseOtp", "choose_method", FALSE),
              "other", pending, stale)
    /\ phase' = phase

\* onBack of the mounted card
Back ==
    /\ phase = "ready"
    /\ currentAuthFlowState \in GuardedSteps
    /\ Commit(onBack(Cur, currentAuthFlowState), Ev("Back", currentAuthFlowState, FALSE),
              "back", pending, stale)
    /\ phase' = phase

\* Sidebar.onLogout, wired in every state
Logout ==
    /\ phase = "ready"
    /\ Commit(handleLogout(Cur), Ev("Logout", currentAuthFlowState, FALSE),
              "other", pending, stale)
    /\ phase' = phase

\* the mounted component starts its network call; it accepts no second
\* submission while one is in flight
StartRequest ==
    /\ phase = "ready"
    /\ currentAuthFlowState \in RequestSteps
    /\ pending = 0
    /\ BagCardinality(stale) + pending < MaxInFlight
    /\ pending' = 1
    /\ UNCHANGED <<currentUserId, isUserVerified, lastAnalyzedDocumentId, appError,
                   currentAuthFlowState, tempEmail, localStorage, phase, stale, lastEvent>>

\* the call of the mounted component settles with success
Succeeded(userData, documentId) ==
    /\ phase = "ready"
    /\ pending = 1
    /\ Commit(onSuccess(Cur, currentAuthFlowState, userData, documentId),
              Ev(SuccessName(currentAuthFlowState), currentAuthFlowState, FALSE),
              "other", 0, stale)
    /\ phase' = phase

\* the call of the mounted component settles with failure
Failed(message) ==
    /\ phase = "ready"
    /\ pending = 1
    /\ Commit(onError(Cur, currentAuthFlowState, message),
              Ev(FailureName(currentAuthFlowState), currentAuthFlowState, FALSE),
              "other", 0, stale)
    /\ phase' = phase

\* the call of an unmounted component settles with success: its callback
\* props are still the closures it was rendered with
StaleSucceeded(r, userData, documentId) ==
    /\ phase = "ready"
    /\ BagIn(r, stale)
    /\ Commit(onSuccess(Cur, r.step, userData, documentId),
              Ev(SuccessName(r.step), r.step, TRUE),
              "other", pending, stale (-) SetToBag({r}))
    /\ phase' = phase

\* the call of an unmounted component settles with failure
StaleFailed(r, message) ==
    /\ phase = "ready"
    /\ BagIn(r, stale)
    /\ Commit(onError(Cur, r.step, message),
              Ev(FailureName(r.step), r.step, TRUE),
              "other", pending, stale (-) SetToBag({r}))
    /\ phase' = phase

Next ==
    \/ LoadEffect
    \/ Restart
    \/ \E email \in Emails : EmailSubmitted(email)
    \/ \E message \in Messages : EmailInputError(message)
    \/ ChoosePassword
    \/ ChooseOtp
    \/ Back
    \/ Logout
    \/ StartRequest
    \/ \E userData \in UserResponse, documentId \in DocIds : Succeeded(userData, documentId)
    \/ \E message \in Messages : Failed(message)
    \/ \E r \in StaleKinds, userData \in UserResponse, documentId \in DocIds :
          StaleSucceeded(r, userData, documentId)
    \/ \E r \in StaleKinds, message \in Messages : StaleFailed(r, message)

Spec == Init /\ [][Next]_vars

----------------------------------------------------------------------------
(* Forced states: the render check applied to every combination of step and
   carried email, as a test harness would force it *)

ForcedInit ==
    /\ \E id \in UserIds \cup {Null}, flag \in StoredFlags :
          localStorage = [EmptyStorage EXCEPT ![LOCAL_STORAGE_USER_ID_KEY] = id,
                                              ![LOCAL_STORAGE_USER_VERIFIED_KEY] = flag]
    /\ currentUserId \in UserIds \cup {Null}
    /\ isUserVerified \in BOOLEAN
    /\ lastAnalyzedDocumentId = Null
    /\ appError \in Messages \cup {Null}
    /\ currentAuthFlowState \in AuthFlowState
    /\ tempEmail \in Emails \cup {Null}
    /\ phase = "ready"
    /\ pending = 0
    /\ stale = EmptyBag
    /\ lastEvent = Ev("Forced", currentAuthFlowState, FALSE)

\* one render of App in the forced state
GuardCheck ==
    /\ lastEvent.name = "Forced"
    /\ Commit(Cur, Ev("Render", currentAuthFlowState, FALSE), "other", 0, EmptyBag)
    /\ phase' = phase

GuardSpec == ForcedInit /\ [][GuardCheck]_vars

----------------------------------------------------------------------------
(* Claims *)

Identity == <<currentUserId, isUserVerified>>

FlowVars == <<currentAuthFlowState, tempEmail, appError, currentUserId,
              isUserVerified, localStorage>>

StepCards == {"AuthMethodChooserCard", "PasswordLoginCard", "OtpRequestCard",
              "OtpVerificationCard"}

\* C1 (as claimed): the success or failure callback of a request abandoned
\* by Back, when it arrives, changes none of flowState, pendingEmail,
\* AppError, identity and SessionStore.
C1_StaleResponseImmunity ==
    [][(\E r \in StaleKinds :
          /\ r.cause = "back"
          /\ \/ \E userData \in UserResponse, documentId \in DocIds :
                    StaleSucceeded(r, userData, documentId)
             \/ \E message \in Messages : StaleFailed(r, message))
        => UNCHANGED FlowVars]_vars

\* C2: Logout from Authenticated with an identity sets flowState to
\* EmailInput and clears identity, pendingEmail, AppError, the last analyzed
\* document and both SessionStore keys.
C2_LogoutClearsEverything ==
    [][(Logout /\ currentAuthFlowState = "authenticated" /\ currentUserId /= Null)
        => /\ currentAuthFlowState' = "email_input"
           /\ currentUserId' = Null
           /\ isUserVerified' = FALSE
           /\ tempEmail' = Null
           /\ appError' = Null
           /\ lastAnalyzedDocumentId' = Null
           /\ localStorage' = EmptyStorage]_vars

C2_Witness ==
    /\ lastEvent.name = "Logout"
    /\ lastEvent.step = "authenticated"
    /\ currentAuthFlowState = "email_input"
    /\ localStorage = EmptyStorage

\* C3 (as claimed): a success event of the mounted step, delivered while
\* AppError is set, leaves AppError null.
C3_ErrorClearsOnSuccess ==
    [][((\E userData \in UserResponse, documentId \in DocIds :
            Succeeded(userData, documentId))
         /\ currentAuthFlowState \in GuardedSteps
         /\ appError /= Null)
        => appError' = Null]_vars

\* C4: EmailSubmitted(e) stores e as pendingEmail, and every other step that
\* ends in ChooseMethod, LoginWithPassword, RequestOtp or VerifyOtp leaves
\* pendingEmail as it was, so it still is the submitted e.
C4_EmailThreading ==
    [][/\ \A e \in Emails : EmailSubmitted(e) => tempEmail' = e
       /\ (currentAuthFlowState' \in GuardedSteps
            /\ ~(\E e \in Emails : EmailSubmitted(e)))
           => tempEmail' = tempEmail]_vars

C4_Witness ==
    /\ currentAuthFlowState = "verify_otp"
    /\ lastEvent.name = "RequestSucceeded"
    /\ tempEmail = "x@y.com"

\* C5: a render in ChooseMethod, LoginWithPassword, RequestOtp or VerifyOtp
\* with a null pendingEmail ends in EmailInput with the email card on screen,
\* and no step card is ever rendered with a null email.
C5_GuardRecovery ==
    [][/\ (currentAuthFlowState \in GuardedSteps /\ tempEmail = Null)
           => /\ currentAuthFlowState' = "email_input"
              /\ View'.card = "EmailInputCard"
              /\ lastEvent'.guard
       /\ View'.card \in StepCards => View'.email /= Null]_vars

C5_Witness ==
    /\ lastEvent.name = "Render"
    /\ lastEvent.step = "login_with_password"
    /\ lastEvent.guard
    /\ tempEmail = Null
    /\ currentAuthFlowState = "email_input"

\* C6: a failure reported by the mounted card in LoginWithPassword,
\* RequestOtp or VerifyOtp keeps the step, pendingEmail, identity and
\* SessionStore, and sets AppError to the reported message.
C6_RetryPreservesContext ==
    [][\A message \in Messages :
          (Failed(message)
           /\ currentAuthFlowState \in {"login_with_password", "request_otp", "verify_otp"})
          => /\ currentAuthFlowState' = currentAuthFlowState
             /\ tempEmail' = tempEmail
             /\ Identity' = Identity
             /\ localStorage' = localStorage
             /\ appError' = message]_vars

C6_Witness ==
    /\ lastEvent.name = "VerificationFailed"
    /\ ~lastEvent.stale
    /\ currentAuthFlowState = "verify_otp"
    /\ appError = "expired code"
    /\ tempEmail = "a@b.com"

\* C7: the mount effect ends in Authenticated with currentUserId the stored
\* identifier and no AppError when the store holds an identifier, and in
\* EmailInput with no currentUserId when it holds none.
C7_InitializationDeterminism ==
    [][LoadEffect
        => IF localStorage[LOCAL_STORAGE_USER_ID_KEY] /= Null
           THEN /\ currentAuthFlowState' = "authenticated"
                /\ currentUserId' = localStorage[LOCAL_STORAGE_USER_ID_KEY]
                /\ appError' = Null
           ELSE /\ currentAuthFlowState' = "email_input"
                /\ currentUserId' = Null]_vars

C7_Witness ==
    /\ lastEvent.name = "Load"
    /\ currentAuthFlowState = "authenticated"
    /\ currentUserId = "u2"
    /\ localStorage[LOCAL_STORAGE_USER_ID_KEY] = "u2"

\* C8 (as claimed): once Authenticated, every step other than Logout (a page
\* reload aside) keeps flowState Authenticated and the identity.
C8_AuthenticatedIsTerminal ==
    [][(currentAuthFlowState = "authenticated" /\ ~Logout /\ ~Restart)
        => /\ currentAuthFlowState' = "authenticated"
           /\ Identity' = Identity]_vars

\* C9 (as claimed): an event the transition table has no row for (Logout
\* outside Authenticated, a failure reported by the email or method card)
\* changes none of flowState, pendingEmail, AppError, identity, SessionStore.
C9_UnlistedPairsAreNoOps ==
    [][(\/ Logout /\ currentAuthFlowState /= "authenticated"
        \/ \E message \in Messages : EmailInputError(message)
        \/ \E message \in Messages :
              Failed(message) /\ currentAuthFlowState = "choose_method")
        => UNCHANGED FlowVars]_vars

\* C10: when the identifier key is absent at load, the mount effect leaves
\* isUserVerified false and currentUserId null whatever the flag key holds.
C10_LoadFailsSafe ==
    [][(LoadEffect /\ localStorage[LOCAL_STORAGE_USER_ID_KEY] = Null)
        => /\ isUserVerified' = FALSE
           /\ currentUserId' = Null]_vars

C10_Witness ==
    /\ lastEvent.name = "Load"
    /\ localStorage[LOCAL_STORAGE_USER_ID_KEY] = Null
    /\ localStorage[LOCAL_STORAGE_USER_VERIFIED_KEY] = "true"
    /\ ~isUserVerified
    /\ currentUserId = Null

\* C11 (as claimed): every step of the mounted card or the sidebar that
\* changes flowState leaves AppError null.
C11_ErrorClearedOnTransition ==
    [][((\/ \E e \in Emails : EmailSubmitted(e)
         \/ ChoosePassword
         \/ ChooseOtp
         \/ Back
         \/ \E userData \in UserResponse, documentId \in DocIds :
               Succeeded(userData, documentId)
         \/ Logout)
        /\ currentAuthFlowState' /= currentAuthFlowState)
        => appError' = Null]_vars

\* C12 (as claimed): the email card is never on screen while the store holds
\* an identifier the mount effect has not read yet.
C12_LoadBeforeFirstRender ==
    ~(/\ phase = "first_render"
      /\ View.card = "EmailInputCard"
      /\ localStorage[LOCAL_STORAGE_USER_ID_KEY] /= Null)

\* C13: in every state, onAnalysisError(msg) sets AppError to msg and
\* onDocumentAnalyzed(id) sets AppError to null and records id; both keep
\* flowState, pendingEmail, identity and SessionStore.
C13_AnalysisEventsIndependent ==
    [][/\ \A documentId \in DocIds :
            (\E userData \in UserResponse :
                \/ Succeeded(userData, documentId) /\ currentAuthFlowState = "authenticated"
                \/ \E r \in StaleKinds :
                      r.step = "authenticated" /\ StaleSucceeded(r, userData, documentId))
            => /\ appError' = Null
               /\ lastAnalyzedDocumentId' = documentId
               /\ UNCHANGED <<currentAuthFlowState, tempEmail, Identity, localStorage>>
       /\ \A message \in Messages :
            (\/ Failed(message) /\ currentAuthFlowState = "authenticated"
             \/ \E r \in StaleKinds :
                   r.step = "authenticated" /\ StaleFailed(r, message))
            => /\ appError' = message
               /\ UNCHANGED <<currentAuthFlowState, tempEmail, Identity, localStorage,
                              lastAnalyzedDocumentId>>]_vars

C13_Witness ==
    /\ lastEvent.name = "DocumentAnalyzed"
    /\ lastEvent.stale
    /\ currentAuthFlowState = "choose_method"
    /\ tempEmail = "a@b.com"
    /\ lastAnalyzedDocumentId = "d1"
    /\ appError = Null

\* C14: a step taken by a callback of the mounted card, or by Logout when
\* Authenticated, either keeps flowState or follows a row of the transition
\* table; a failure callback keeps flowState.
C14_FlowRefinesTable ==
    [][(\/ \E e \in Emails : EmailSubmitted(e)
        \/ \E message \in Messages : EmailInputError(message)
        \/ ChoosePassword
        \/ ChooseOtp
        \/ Back
        \/ \E userData \in UserResponse, documentId \in DocIds :
              Succeeded(userData, documentId)
        \/ \E message \in Messages : Failed(message)
        \/ Logout /\ currentAuthFlowState = "authenticated")
        => /\ \/ currentAuthFlowState' = currentAuthFlowState
              \/ <<currentAuthFlowState, lastEvent'.name, currentAuthFlowState'>> \in
                    {<<"email_input", "EmailSubmitted", "choose_method">>,
                     <<"choose_method", "ChoosePassword", "login_with_password">>,
                     <<"choose_method", "ChooseOtp", "request_otp">>,
                     <<"choose_method", "Back", "email_input">>,
                     <<"choose_method", "LoginSucceeded", "authenticated">>,
                     <<"login_with_password", "LoginSucceeded", "authenticated">>,
                     <<"login_with_password", "Back", "choose_method">>,
                     <<"request_otp", "RequestSucceeded", "verify_otp">>,
                     <<"request_otp", "Back", "choose_method">>,
                     <<"verify_otp", "VerificationSucceeded", "authenticated">>,
                     <<"verify_otp", "Back", "request_otp">>,
                     <<"authenticated", "Logout", "email_input">>}
           /\ lastEvent'.name \in {"LoginFailed", "RequestFailed", "VerificationFailed"}
                => currentAuthFlowState' = currentAuthFlowState]_vars

C14_Witness ==
    /\ lastEvent.name = "Back"
    /\ lastEvent.step = "verify_otp"
    /\ currentAuthFlowState = "request_otp"

C16_GuardRecoveryIsSilent ==
    [][lastEvent'.guard
        => /\ currentAuthFlowState \in GuardedSteps
           /\ appError' = appError
           /\ Identity' = Identity
           /\ localStorage' = localStorage
           /\ tempEmail' = tempEmail
           /\ lastAnalyzedDocumentId' = lastAnalyzedDocumentId]_vars

C16_Witness ==
    /\ lastEvent.name = "Render"
    /\ lastEvent.step = "verify_otp"
    /\ lastEvent.guard
    /\ currentAuthFlowState = "email_input"
    /\ tempEmail = Null
    /\ appError = "expired code"
    /\ currentUserId = "u1"

LoginSuccessStep ==
    \E userData \in UserResponse, documentId \in DocIds :
        \/ /\ Succeeded(userData, documentId)
           /\ currentAuthFlowState \in {"choose_method", "login_with_password", "verify_otp"}
        \/ \E r \in StaleKinds :
              /\ r.step \in {"choose_method", "login_with_password", "verify_otp"}
              /\ StaleSucceeded(r, userData, documentId)

\* C17 (as claimed): only a login success and Logout change the store, and
\* the mount effect after a reload from a step other than Authenticated ends
\* in EmailInput with no pendingEmail.
C17_OnlyLoginAndLogoutPersist ==
    [][/\ localStorage' /= localStorage => (LoginSuccessStep \/ Logout)
       /\ (LoadEffect /\ lastEvent.name = "Restart" /\ lastEvent.step /= "authenticated")
           => /\ currentAuthFlowState' = "email_input"
              /\ tempEmail' = Null]_vars

\* C18 (as claimed): once the mount effect has run, flowState is
\* Authenticated exactly when currentUserId is set, currentUserId is the
\* stored identifier, and isUserVerified implies currentUserId is set.
C18_SessionConsistency ==
    phase = "ready"
    => /\ (currentAuthFlowState = "authenticated") <=> (currentUserId /= Null)
       /\ currentUserId = localStorage[LOCAL_STORAGE_USER_ID_KEY]
       /\ isUserVerified => currentUserId /= Null

\* C19: flowState is never RegisterWithPassword.
C19_RegisterUnreachable ==
    currentAuthFlowState /= "register_with_password"

C19_Witness ==
    /\ lastEvent.name = "ChoosePassword"
    /\ currentAuthFlowState = "login_with_password"
    /\ View.card = "PasswordLoginCard"

\* C20: pendingEmail changes only in EmailSubmitted, Logout (to null) and a
\* page reload; Back from ChooseMethod ends in EmailInput with the email
\* still held.
C20_PendingEmailWriters ==
    [][/\ tempEmail' /= tempEmail
           => ((\E e \in Emails : EmailSubmitted(e)) \/ Logout \/ Restart)
       /\ Logout => tempEmail' = Null
       /\ (Back /\ currentAuthFlowState = "choose_method")
           => /\ currentAuthFlowState' = "email_input"
              /\ tempEmail' = tempEmail
              /\ tempEmail' /= Null]_vars

C20_Witness ==
    /\ lastEvent.name = "Back"
    /\ lastEvent.step = "choose_method"
    /\ currentAuthFlowState = "email_input"
    /\ tempEmail = "a@b.com"

TypeOK ==
    /\ currentUserId \in UserIds \cup {Null}
    /\ isUserVerified \in BOOLEAN
    /\ currentAuthFlowState \in AuthFlowState
    /\ tempEmail \in Emails \cup {Null}
    /\ appError \in Messages \cup {Null}
    /\ pending \in 0..1
    /\ BagCardinality(stale) + pending <= MaxInFlight

====
